---- MODULE Spec2Model ----
(***************************************************************************)
(* CTA load-balancing search of moderngpu (cta_load_balance.hxx).          *)
(*                                                                         *)
(* One behaviour is one kernel launch over all tiles (CTAs) of one input,  *)
(* run once or twice.  Inside a tile the nt threads interleave freely      *)
(* between the __syncthreads() barriers.  Tiles are independent (each has  *)
(* its own threads and shared memory), so they run one after another.      *)
(* A CTA starts with shared buffers of unknown content: a slot reads as    *)
(* any value of Junk until the CTA has written it.                         *)
(*                                                                         *)
(* Specifications: Spec (one launch), SpecBalance (one launch of a kernel  *)
(* that only calls load_balance), SpecTwice (the launch repeated),         *)
(* SpecAnyRange (either B range handed to the cached load), SpecS5 (the    *)
(* inputs of scenario S5), SpecTrailing (the launch, then the variant that *)
(* always loads the trailing segment start) and SpecAnyStart (descriptors  *)
(* whose first segment may start behind output 0).                         *)
(***************************************************************************)
EXTENDS Integers, Sequences, FiniteSets, TLC

\* ------------------------------------------------------------------ bounds
MaxNt == 2
MaxVt == 2
MaxCount == 3
MaxSegs == 4
Arity == 2

VARIABLES
  nt, vt,            \* template parameters of cta_load_balance_t
  count,             \* number of outputs
  num_segments,      \* number of segments
  segments,          \* [0..num_segments-1 -> 0..count], the segment starts
  launches,          \* how many times the kernel is launched on the input
  range_kinds,       \* the B ranges the kernel body may hand to the cached load
  range_kind,        \* the one it hands to the cached load of this tile
  always_trailing,   \* the launch runs the variant of line 29 that loads the
                     \* trailing start whenever range.b_end < num_segments
  cta,               \* the tile being processed (num_ctas: launch finished)
  run,               \* 1..launches, the launch being executed
  indices,           \* storage_t::indices, nv + 2 ints
  indices_def,       \* the slots of indices that hold a written value
  shared,            \* cached_segment_load_storage_t, nv + 1 elements
  shared_def,        \* the slots of shared that hold a written value
  th,                \* per-thread registers and program position
  oob,               \* the buffers some access fell outside of
  emitted,           \* (index, seg, rank) of the active lanes, this launch
  first              \* results of the first launch, per tile and thread

vars == <<nt, vt, count, num_segments, segments, launches, range_kinds,
          range_kind, always_trailing, cta, run, indices, indices_def, shared,
          shared_def, th, oob, emitted, first>>

inputs == <<nt, vt, count, num_segments, segments, launches, range_kinds,
            always_trailing>>

\* --------------------------------------------------------------- helpers
Min(a, b) == IF a < b THEN a ELSE b
Max(a, b) == IF a < b THEN b ELSE a

nv == nt * vt
Tids == 0 .. nt - 1

RECURSIVE Pow2(_)
Pow2(n) == IF n = 0 THEN 1 ELSE 2 * Pow2(n - 1)

\* merge_flags |= (int)p << i
RECURSIVE BitOr(_, _)
BitOr(x, y) ==
  IF x = 0 THEN y
  ELSE IF y = 0 THEN x
  ELSE Max(x % 2, y % 2) + 2 * BitOr(x \div 2, y \div 2)

Bit(x, k) == (x \div Pow2(k)) % 2

RECURSIVE popc(_)
popc(x) == IF x = 0 THEN 0 ELSE (x % 2) + popc(x \div 2)

\* What a read of an unwritten or out-of-buffer location may return.
Junk == {-1, count + 1}

\* The values to try for a step's undefined reads: one when it makes none.
JunkIf(undefined) == IF undefined THEN Junk ELSE {0}

\* oob after a step whose accesses to buffer `buf` were out of bounds iff bad.
Oob(buf, bad) == IF bad THEN oob \cup {buf} ELSE oob

\* ------------------------------------------------- consumed from cta_merge
\* merge_range_t
a_count(r) == r.a_end - r.a_begin
b_count(r) == r.b_end - r.b_begin

\* merge_path<bounds_upper>(counting_iterator_t<int>(a_base), a_cnt, b_keys,
\* b_cnt, diag, less_t<int>()): binary search along the cross-diagonal.
RECURSIVE merge_path_search(_, _, _, _, _)
merge_path_search(a_base, b_keys, diag, begin, end) ==
  IF begin < end
  THEN LET mid == (begin + end) \div 2
           a_key == a_base + mid
           b_key == b_keys[diag - 1 - mid]
           pred == a_key < b_key
       IN  IF pred
           THEN merge_path_search(a_base, b_keys, diag, mid + 1, end)
           ELSE merge_path_search(a_base, b_keys, diag, begin, mid)
  ELSE begin

merge_path(a_base, a_cnt, b_keys, b_cnt, diag) ==
  merge_path_search(a_base, b_keys, diag,
                    Max(0, diag - b_cnt), Min(diag, a_cnt))

compute_merge_range(a_cnt, b_cnt, partition, spacing, mp0, mp1) ==
  LET diag0 == spacing * partition
      diag1 == Min(a_cnt + b_cnt, diag0 + spacing)
  IN  [a_begin |-> mp0, a_end |-> mp1,
       b_begin |-> diag0 - mp0, b_end |-> diag1 - mp1]

\* The host's partition search: partitions[k] is the upper-bounds merge-path
\* crossing of 0..count-1 against segments at diagonal
\* min(nv*k, count+num_segments).
partitions(k) ==
  merge_path(0, count, segments, num_segments,
             Min(nv * k, count + num_segments))

\* The launch has one CTA per nv merge items.
num_ctas == (count + num_segments + nv - 1) \div nv

\* The per-segment attribute arrays handed to the cached load: iterators[i][s].
iterators(i, s) == 10 * (s + 1) + i

\* ----------------------------------------------------------- shared memory
IndexOk(x) == x \in 0 .. nv + 1
SharedOk(x) == x \in 0 .. nv

\* storage.indices[x], g standing for what an undefined read returns
RdIndices(g, x) == IF x \in indices_def THEN indices[x] ELSE g
RdShared(g, x) == IF x \in shared_def THEN shared[x] ELSE g
RdSegments(g, s) == IF s \in 0 .. num_segments - 1 THEN segments[s] ELSE g

\* ------------------------------------------------------------------- Init
ZeroRange == [a_begin |-> 0, a_end |-> 0, b_begin |-> 0, b_end |-> 0]

ThreadInit ==
  [pc |-> "fill",
   range |-> ZeroRange,
   placement |-> [range |-> ZeroRange, a_index |-> 0, b_index |-> 0],
   load_preceding |-> 0, load_count |-> 0, fill_count |-> 0,
   cur_item |-> 0, cur_segment |-> 0, merge_flags |-> 0, i |-> 0,
   steps |-> <<>>,
   indices |-> [k \in 0 .. vt - 1 |-> 0],
   seg |-> [k \in 0 .. vt - 1 |-> 0],
   ranks |-> [k \in 0 .. vt - 1 |-> 0],
   attr |-> 0,
   values |-> [k \in 0 .. vt - 1 |-> [a \in 0 .. Arity - 1 |-> 0]]]

\* Segment descriptors of the precondition domain: non-decreasing starts in
\* [0, count] with segments[0] = 0.
SegmentArrays(n, c) ==
  {f \in [0 .. n - 1 -> 0 .. c] :
     /\ f[0] = 0
     /\ \A s \in 0 .. n - 2 : f[s] <= f[s + 1]}

\* Segment descriptors of the data model as documented: non-decreasing
\* starts in [0, count], the first one anywhere.
SegmentArraysAnyStart(n, c) ==
  {f \in [0 .. n - 1 -> 0 .. c] : \A s \in 0 .. n - 2 : f[s] <= f[s + 1]}

\* A CTA before its threads run: nothing written to its shared memory yet.
FreshIndices == [x \in 0 .. nv + 1 |-> 0]
FreshShared == [x \in 0 .. nv |-> 0]
FreshThreads == [t \in Tids |-> ThreadInit]

FreshCta ==
  /\ indices = FreshIndices
  /\ indices_def = {}
  /\ shared = FreshShared
  /\ shared_def = {}
  /\ th = FreshThreads

\* The first CTA of the first of n launches is about to start.
LaunchStart(n, kinds) ==
  /\ launches = n
  /\ always_trailing = FALSE
  /\ range_kinds = kinds
  /\ range_kind = "none"
  /\ cta = 0
  /\ run = 1
  /\ FreshCta
  /\ oob = {}
  /\ emitted = <<>>
  /\ first = <<>>

InitLaunch(n, kinds) ==
  /\ nt \in 1 .. MaxNt
  /\ vt \in 1 .. MaxVt
  /\ count \in 0 .. MaxCount
  /\ num_segments \in 1 .. MaxSegs
  /\ segments \in SegmentArrays(num_segments, count)
  /\ LaunchStart(n, kinds)

\* One launch; the body passes result.placement.range to the cached load.
Init == InitLaunch(1, {"placement"})

\* The kernel is run twice on the same input.
InitTwice == InitLaunch(2, {"placement"})

\* One launch; the body passes either B range of the result to the cached load.
InitAnyRange == InitLaunch(1, {"placement", "merge"})

\* One launch on a descriptor whose first segment may start behind output 0.
InitAnyStart ==
  /\ nt \in 1 .. MaxNt
  /\ vt \in 1 .. MaxVt
  /\ count \in 0 .. MaxCount
  /\ num_segments \in 1 .. MaxSegs
  /\ segments \in SegmentArraysAnyStart(num_segments, count)
  /\ LaunchStart(1, {"placement"})

\* Scenario S5 of the specification: nt = 4, vt = 2, count = 20 and the
\* descriptor 0, 6, 7, 7, 15, 20, read either as six segment starts or as
\* five starts followed by the terminator count.
S5Starts == <<0, 6, 7, 7, 15, 20>>

InitS5 ==
  /\ nt = 4
  /\ vt = 2
  /\ count = 20
  /\ num_segments \in {5, 6}
  /\ segments = [s \in 0 .. num_segments - 1 |-> S5Starts[s + 1]]
  /\ LaunchStart(1, {"placement"})

\* ------------------------------------------------- cta_load_balance_place
\* Mutant of LoadPreceding: the preceding segment start is never loaded.
LoadPrecedingNever(range) == 0

\* Line 23: load the segment start preceding the tile?
LoadPreceding(range) == IF 0 < range.b_begin THEN 1 ELSE 0

\* The variant of lines 29-30 without the test of a_end.
LoadTrailingAlways(range) == range.b_end < num_segments

\* Lines 29-30: load a trailing segment start?
LoadTrailing(range) == range.b_end < num_segments /\ range.a_end < count

\* The test of line 29 in the launch that is running.
ExtendEnd(range) ==
  IF always_trailing THEN LoadTrailingAlways(range) ELSE LoadTrailing(range)

\* Mutant of Sentinel: the fill value is the number of segments.
SentinelSegments == num_segments

\* Line 37: the value the end of the window is filled with.
Sentinel == count

\* Mutant of FillCount: the preceding element is not counted.
FillCountNoPreceding(load_preceding, load_count, r) ==
  nt * vt + 1 - load_count - a_count(r)

\* Mutant of FillCount: the window sized by the nv + 2 slots of the buffer.
FillCountBuffer(load_preceding, load_count, r) ==
  nt * vt + 2 + load_preceding - load_count - a_count(r)

\* Line 33.
FillCount(load_preceding, load_count, r) ==
  nt * vt + 1 + load_preceding - load_count - a_count(r)

\* load_balance lines 92-99 and cta_load_balance_place lines 23-33: the
\* thread-local set-up before the first shared-memory access.
Setup ==
  LET mp0 == partitions(cta)
      mp1 == partitions(cta + 1)
      range == compute_merge_range(count, num_segments, cta, nv, mp0, mp1)
      load_preceding == LoadPreceding(range)
      r1 == [range EXCEPT !.b_begin = @ - load_preceding]
      r2 == IF ExtendEnd(r1) THEN [r1 EXCEPT !.b_end = @ + 1] ELSE r1
      load_count == b_count(r2)
  IN  [range |-> range,
       placed |-> r2,
       load_preceding |-> load_preceding,
       load_count |-> load_count,
       fill_count |-> FillCount(load_preceding, load_count, r2)]

\* The storage.indices slot of b_shared[j] before the rebias of line 106.
BWindow(t, j) == a_count(th[t].range) + j

\* The iterations i = tid, tid + nt, ... < n of a cooperative loop.
Strided(t, n) == {i \in 0 .. n - 1 : i % nt = t}

\* The set-up, then lines 36-37: fill the end of the window with count.
Fill(t) ==
  /\ cta < num_ctas
  /\ th[t].pc = "fill"
  /\ LET su == Setup
         slots == {a_count(su.range) + su.load_count + i :
                     i \in Strided(t, su.fill_count)}
     IN  /\ indices' = [x \in DOMAIN indices |->
                          IF x \in slots THEN Sentinel ELSE indices[x]]
         /\ indices_def' = indices_def \cup {x \in slots : IndexOk(x)}
         /\ oob' = Oob("indices", \E x \in slots : ~IndexOk(x))
         /\ th' = [th EXCEPT ![t] =
                     [@ EXCEPT !.pc = "load",
                               !.range = su.range,
                               !.placement = [@ EXCEPT !.range = su.placed],
                               !.load_preceding = su.load_preceding,
                               !.load_count = su.load_count,
                               !.fill_count = su.fill_count]]
  /\ UNCHANGED <<inputs, range_kind, cta, run, shared, shared_def, emitted,
                 first>>

\* Lines 41-42: load the segment descriptors into the front of the window.
Load(t) ==
  /\ th[t].pc = "load"
  /\ \E g \in JunkIf(\E i \in Strided(t, th[t].load_count) :
                        th[t].placement.range.b_begin + i
                          \notin 0 .. num_segments - 1) :
       LET its == Strided(t, th[t].load_count)
           slot(i) == BWindow(t, i)
           src(i) == th[t].placement.range.b_begin + i
           val(x) == RdSegments(g, src(CHOOSE i \in its : slot(i) = x))
           slots == {slot(i) : i \in its}
       IN  /\ indices' = [x \in DOMAIN indices |->
                            IF x \in slots THEN val(x) ELSE indices[x]]
           /\ indices_def' = indices_def \cup {x \in slots : IndexOk(x)}
           /\ oob' = Oob("indices", \E x \in slots : ~IndexOk(x))
                        \cup Oob("segments", \E i \in its :
                                    src(i) \notin 0 .. num_segments - 1)
  /\ th' = [th EXCEPT ![t].pc = "sync1"]
  /\ UNCHANGED <<inputs, range_kind, cta, run, shared, shared_def, emitted,
                 first>>

\* A __syncthreads(): every thread of the CTA has arrived; all leave together.
Barrier(from, to) ==
  /\ \A t \in Tids : th[t].pc = from
  /\ th' = [t \in Tids |-> [th[t] EXCEPT !.pc = to]]
  /\ UNCHANGED <<inputs, range_kind, cta, run, indices, indices_def, shared,
                 shared_def, oob, emitted, first>>

\* A missing __syncthreads(): a thread goes on without waiting for the others.
PassAlone(from, to) ==
  /\ \E t \in Tids :
       /\ th[t].pc = from
       /\ th' = [th EXCEPT ![t].pc = to]
  /\ UNCHANGED <<inputs, range_kind, cta, run, indices, indices_def, shared,
                 shared_def, oob, emitted, first>>

\* Mutant of Sync1: no barrier between the staging and the search.
Sync1Missing == PassAlone("sync1", "mpath")

\* Line 43.
Sync1 == Barrier("sync1", "mpath")

\* Mutant of Diag: the preceding element is not skipped.
DiagNoPreceding(t, load_preceding) == vt * t

\* Mutant of BIndex: the start is not moved back by one.
BIndexNoDecrement(r, diag, mp) == r.b_begin + (diag - mp)

\* Line 48: the thread's cross-diagonal.
Diag(t, load_preceding) == vt * t + load_preceding

\* Lines 59-60: the starting points of the thread's serial merge.
AIndex(r, mp) == r.a_begin + mp
BIndex(r, diag, mp) == r.b_begin + (diag - mp) - 1

\* Lines 48-50 and 59-64, then load_balance lines 106-111: the merge-path
\* search over the staged window and the thread's serial-merge start.
MergePath(t) ==
  /\ th[t].pc = "mpath"
  /\ \E g \in JunkIf(\E j \in 0 .. th[t].load_count + th[t].fill_count - 1 :
                        BWindow(t, j) \notin indices_def) :
       LET r == th[t].placement.range
           b_cnt == th[t].load_count + th[t].fill_count
           b_keys == [j \in 0 .. b_cnt - 1 |-> RdIndices(g, BWindow(t, j))]
           diag == Diag(t, th[t].load_preceding)
           mp == merge_path(r.a_begin, a_count(r), b_keys, b_cnt, diag)
           a_index == AIndex(r, mp)
           b_index == BIndex(r, diag, mp)
       IN  th' = [th EXCEPT ![t] =
                    [@ EXCEPT !.pc = "sync2",
                              !.placement = [range |-> r, a_index |-> a_index,
                                             b_index |-> b_index],
                              !.cur_item = a_index,
                              !.cur_segment = b_index,
                              !.merge_flags = 0,
                              !.i = 0,
                              !.steps = <<>>]]
  /\ UNCHANGED <<inputs, range_kind, cta, run, indices, indices_def, shared,
                 shared_def, oob, emitted, first>>

\* Line 51.
Sync2 == Barrier("sync2", "merge")

\* ------------------------------------------- cta_load_balance_t::load_balance
\* The storage.indices slot of a_shared[x] (line 98).
ASlot(t, x) == x - th[t].range.a_begin

\* Mutant of BSlot: the rebias of line 106 forgotten.
BSlotNoRebias(t, s) == a_count(th[t].range) + s

\* The storage.indices slot of b_shared[s] after the rebias of line 106.
BSlot(t, s) == a_count(th[t].range) + s - th[t].placement.range.b_begin

\* Mutant of MergePred: a lower-bounds comparison.
MergePredLower(cur_item, next_start) == cur_item <= next_start

\* Line 116: is the next segment start still ahead of the output index?
MergePred(cur_item, next_start) == cur_item < next_start

\* Mutant of AdvanceA: the extra step may emit as well.
AdvanceAExtra(p, i) == p

\* The branch of lines 117-120: advance A (the needle)?
AdvanceA(p, i) == p /\ i < vt

\* Mutant of SetFlag: the bit is set whatever p is.
SetFlagAlways(merge_flags, p, i) == BitOr(merge_flags, Pow2(i))

\* Line 121: merge_flags |= (int)p << i.
SetFlag(merge_flags, p, i) == BitOr(merge_flags, IF p THEN Pow2(i) ELSE 0)

\* Lines 114-122: one iteration of the serial merge.
SerialStep(t) ==
  /\ th[t].pc = "merge"
  /\ \E g \in JunkIf(BSlot(t, th[t].cur_segment + 1) \notin indices_def) :
       LET i == th[t].i
           cur_item == th[t].cur_item
           cur_segment == th[t].cur_segment
           p == MergePred(cur_item, RdIndices(g, BSlot(t, cur_segment + 1)))
           adv == AdvanceA(p, i)
           slot == ASlot(t, cur_item)
       IN  /\ indices' = IF adv /\ IndexOk(slot)
                         THEN [indices EXCEPT ![slot] = cur_segment]
                         ELSE indices
           /\ indices_def' = IF adv /\ IndexOk(slot)
                             THEN indices_def \cup {slot} ELSE indices_def
           /\ oob' = Oob("indices", \/ ~IndexOk(BSlot(t, cur_segment + 1))
                                    \/ adv /\ ~IndexOk(slot))
           /\ th' = [th EXCEPT ![t] =
                       [@ EXCEPT !.cur_item = IF adv THEN @ + 1 ELSE @,
                                 !.cur_segment = IF adv THEN @ ELSE @ + 1,
                                 !.merge_flags = SetFlag(@, p, i),
                                 !.steps = Append(@, [p |-> p, a |-> adv]),
                                 !.i = i + 1,
                                 !.pc = IF i + 1 < vt + 1
                                        THEN "merge" ELSE "sync3"]]
  /\ UNCHANGED <<inputs, range_kind, cta, run, shared, shared_def, emitted,
                 first>>

\* Mutant of Sync3: no barrier between the serial merge and the readout.
Sync3Missing == PassAlone("sync3", "readout")

\* Line 123.
Sync3 == Barrier("sync3", "readout")

\* Mutant of ReadoutIndex: the tile-local position, a_begin forgotten.
ReadoutIndexLocal(range, j) == j

\* Line 131.
ReadoutIndex(range, j) == range.a_begin + j

\* Mutant of InactiveSeg: the b_begin of the loaded (extended) range.
InactiveSegLoaded(t) == th[t].placement.range.b_begin

\* Lines 136-137: what an inactive slot gets.
InactiveSeg(t) == th[t].range.b_begin
InactiveRank == -1

\* Lines 128-139: the strided readout.
Readout(t) ==
  /\ th[t].pc = "readout"
  /\ \E g \in JunkIf(\E i \in 0 .. vt - 1 :
                        /\ nt * i + t < a_count(th[t].range)
                        /\ \/ nt * i + t \notin indices_def
                           \/ BSlot(t, indices[nt * i + t])
                                \notin indices_def) :
       LET range == th[t].range
           j(i) == nt * i + t
           idx(i) == ReadoutIndex(range, j(i))
           sg(i) == IF j(i) < a_count(range)
                    THEN RdIndices(g, j(i)) ELSE InactiveSeg(t)
           rk(i) == IF j(i) < a_count(range)
                    THEN idx(i) - RdIndices(g, BSlot(t, sg(i)))
                    ELSE InactiveRank
       IN  /\ th' = [th EXCEPT ![t] =
                       [@ EXCEPT !.pc = "sync4",
                                 !.indices = [i \in 0 .. vt - 1 |-> idx(i)],
                                 !.seg = [i \in 0 .. vt - 1 |-> sg(i)],
                                 !.ranks = [i \in 0 .. vt - 1 |-> rk(i)]]]
           /\ oob' = Oob("indices", \E i \in 0 .. vt - 1 :
                          /\ j(i) < a_count(range)
                          /\ ~IndexOk(j(i)) \/ ~IndexOk(BSlot(t, sg(i))))
  /\ UNCHANGED <<inputs, range_kind, cta, run, indices, indices_def, shared,
                 shared_def, emitted, first>>

\* Line 140; the thread returns (lines 142-145) and the kernel body goes on
\* to the cached load of the first attribute.
Sync4 ==
  /\ \A t \in Tids : th[t].pc = "sync4"
  /\ th' = [t \in Tids |-> [th[t] EXCEPT !.pc = "cload", !.attr = 0]]
  /\ range_kind' \in range_kinds
  /\ UNCHANGED <<inputs, cta, run, indices, indices_def, shared, shared_def,
                 oob, emitted, first>>

\* Line 140; the thread returns (lines 142-145) to a kernel body that loads
\* no segment attributes.
Sync4Return ==
  /\ \A t \in Tids : th[t].pc = "sync4"
  /\ th' = [t \in Tids |-> [th[t] EXCEPT !.pc = "done"]]
  /\ UNCHANGED <<inputs, range_kind, cta, run, indices, indices_def, shared,
                 shared_def, oob, emitted, first>>

\* result_t of thread t (lines 142-145).
Result(t) ==
  [placement |-> th[t].placement,
   merge_range |-> th[t].range,
   merge_flags |-> th[t].merge_flags,
   indices |-> th[t].indices,
   segments |-> th[t].seg,
   ranks |-> th[t].ranks]

\* ------------------------------------------ detail::cached_segment_load_t
\* The range_t the kernel body passes to load: the B range of the tile.
LoadRange(t) ==
  IF range_kind = "placement"
  THEN [begin |-> th[t].placement.range.b_begin,
        end |-> th[t].placement.range.b_end]
  ELSE [begin |-> th[t].range.b_begin, end |-> th[t].range.b_end]

\* The scratch slot of shared[j] after the bias of line 172.
SSlot(t, j) == j - LoadRange(t).begin

\* Lines 169-176: cooperatively load attribute attr of the tile's segments.
CachedLoad(t) ==
  /\ th[t].pc = "cload"
  /\ LET rng == LoadRange(t)
         js == {rng.begin + i : i \in Strided(t, rng.end - rng.begin)}
         slots == {SSlot(t, j) : j \in js}
     IN  /\ shared' = [x \in DOMAIN shared |->
                         IF x \in slots
                         THEN iterators(th[t].attr, x + rng.begin)
                         ELSE shared[x]]
         /\ shared_def' = shared_def \cup {x \in slots : SharedOk(x)}
         /\ oob' = Oob("shared", \E x \in slots : ~SharedOk(x))
  /\ th' = [th EXCEPT ![t].pc = "csync1"]
  /\ UNCHANGED <<inputs, range_kind, cta, run, indices, indices_def, emitted,
                 first>>

\* Mutant of CSync1: no barrier between the load and the scatter.
CSync1Missing == PassAlone("csync1", "cscatter")

\* Line 177.
CSync1 == Barrier("csync1", "cscatter")

\* The scratch element line 181 reads for lane k.
ScatterSlot(t, k) == SSlot(t, th[t].seg[k])

\* Lines 180-182: load the values into register.
CachedScatter(t) ==
  /\ th[t].pc = "cscatter"
  /\ \E g \in JunkIf(\E k \in 0 .. vt - 1 :
                        ScatterSlot(t, k) \notin shared_def) :
       /\ th' = [th EXCEPT ![t] =
                   [@ EXCEPT !.pc = "csync2",
                             !.values =
                                [k \in 0 .. vt - 1 |->
                                   [@[k] EXCEPT ![th[t].attr] =
                                      RdShared(g, ScatterSlot(t, k))]]]]
       /\ oob' = Oob("shared", \E k \in 0 .. vt - 1 :
                                 ~SharedOk(ScatterSlot(t, k)))
  /\ UNCHANGED <<inputs, range_kind, cta, run, indices, indices_def, shared,
                 shared_def, emitted, first>>

\* Line 183, then the recursion of lines 185-186 to attribute i + 1, which
\* ends at the empty specialisation of lines 190-197.
CSync2 ==
  /\ \A t \in Tids : th[t].pc = "csync2"
  /\ th' = [t \in Tids |->
              IF th[t].attr + 1 < Arity
              THEN [th[t] EXCEPT !.pc = "cload", !.attr = @ + 1]
              ELSE [th[t] EXCEPT !.pc = "done"]]
  /\ UNCHANGED <<inputs, range_kind, cta, run, indices, indices_def, shared,
                 shared_def, oob, emitted, first>>

\* ------------------------------------------------------------ the launch
\* Slot k of thread t owns an output (line 132).
Active(t, k) == nt * k + t < a_count(th[t].range)

Lanes == {<<t, k>> : t \in Tids, k \in 0 .. vt - 1}

RECURSIVE SeqOfSet(_)
SeqOfSet(S) ==
  IF S = {} THEN <<>>
  ELSE LET x == CHOOSE y \in S : TRUE IN <<x>> \o SeqOfSet(S \ {x})

\* The (index, seg, rank) triples the tile's active lanes hand to the body.
TileTriples ==
  LET act == {l \in Lanes : Active(l[1], l[2])}
      lanes == SeqOfSet(act)
  IN  [n \in 1 .. Len(lanes) |->
         <<th[lanes[n][1]].indices[lanes[n][2]],
           th[lanes[n][1]].seg[lanes[n][2]],
           th[lanes[n][1]].ranks[lanes[n][2]]>>]

\* Every thread of the tile has finished: the body consumes the lanes and
\* the next CTA starts.
TileDone ==
  /\ cta < num_ctas
  /\ \A t \in Tids : th[t].pc = "done"
  /\ emitted' = emitted \o TileTriples
  /\ first' = IF run = 1 THEN Append(first, [t \in Tids |-> Result(t)])
              ELSE first
  /\ UNCHANGED <<inputs, run, oob>>
  /\ cta' = cta + 1
  /\ indices' = FreshIndices
  /\ indices_def' = {}
  /\ shared' = FreshShared
  /\ shared_def' = {}
  /\ th' = FreshThreads
  /\ range_kind' = "none"

\* The kernel is launched again on the same inputs.
Rerun ==
  /\ cta = num_ctas
  /\ run < launches
  /\ run' = run + 1
  /\ cta' = 0
  /\ emitted' = <<>>
  /\ UNCHANGED <<inputs, range_kind, indices, indices_def, shared, shared_def,
                 th, oob, first>>

\* The kernel is launched again on the same inputs, as the variant that
\* loads the trailing segment start whenever range.b_end < num_segments.
RerunAlways ==
  /\ cta = num_ctas
  /\ run < launches
  /\ ~always_trailing
  /\ run' = run + 1
  /\ cta' = 0
  /\ emitted' = <<>>
  /\ always_trailing' = TRUE
  /\ UNCHANGED <<nt, vt, count, num_segments, segments, launches, range_kinds,
                 range_kind, indices, indices_def, shared, shared_def, th, oob,
                 first>>

\* One launch: the steps of the threads, the barriers and the end of a tile.
Launch ==
  \/ \E t \in Tids : Fill(t)
  \/ \E t \in Tids : Load(t)
  \/ Sync1
  \/ \E t \in Tids : MergePath(t)
  \/ Sync2
  \/ \E t \in Tids : SerialStep(t)
  \/ Sync3
  \/ \E t \in Tids : Readout(t)
  \/ Sync4
  \/ \E t \in Tids : CachedLoad(t)
  \/ CSync1
  \/ \E t \in Tids : CachedScatter(t)
  \/ CSync2
  \/ TileDone

\* One launch of a kernel that calls load_balance and nothing else.
LaunchBalance ==
  \/ \E t \in Tids : Fill(t)
  \/ \E t \in Tids : Load(t)
  \/ Sync1
  \/ \E t \in Tids : MergePath(t)
  \/ Sync2
  \/ \E t \in Tids : SerialStep(t)
  \/ Sync3
  \/ \E t \in Tids : Readout(t)
  \/ Sync4Return
  \/ TileDone

Next ==
  \/ Launch
  \/ Rerun

Spec == Init /\ [][Launch]_vars

SpecTwice == InitTwice /\ [][Next]_vars

SpecAnyRange == InitAnyRange /\ [][Launch]_vars

SpecBalance == Init /\ [][LaunchBalance]_vars

SpecS5 == InitS5 /\ [][Launch]_vars

SpecAnyStart == InitAnyStart /\ [][Launch]_vars

\* The code is run, then the always-loading variant on the same inputs.
NextTrailing ==
  \/ Launch
  \/ RerunAlways

SpecTrailing == InitTwice /\ [][NextTrailing]_vars

\* ------------------------------------------------------------ reference
\* segments[s] with segments[num_segments] = count.
SegStart(s) == IF s = num_segments THEN count ELSE segments[s]

\* Output i belongs to segment s.
Owns(s, i) ==
  /\ s \in 0 .. num_segments - 1
  /\ SegStart(s) <= i
  /\ i < SegStart(s + 1)

\* The segment of output i.
SegOf(i) == CHOOSE s \in 0 .. num_segments - 1 : Owns(s, i)

IsEmpty(s) == SegStart(s) = SegStart(s + 1)

\* Positions of a thread inside the current tile.
AfterMergeBarrier == {"readout", "sync4", "cload", "csync1", "cscatter",
                      "csync2", "done"}
AfterMergeSteps == {"sync3"} \cup AfterMergeBarrier
AfterReadout == AfterMergeBarrier \ {"readout"}

\* The tile's merge range, from the partition crossings.
TileRange ==
  compute_merge_range(count, num_segments, cta, nv,
                      partitions(cta), partitions(cta + 1))

\* ---------------------------------------------------------------- claims

\* C1: once the serial merge and its barrier are over, storage.indices holds
\* at slot i - a_begin, for every output i of the tile, the id s of the
\* segment that owns i: segments[s] <= i < segments[s+1].
C1_SegmentIds ==
  (cta < num_ctas /\ \A t \in Tids : th[t].pc \in AfterMergeBarrier) =>
    \A t \in Tids :
      \A i \in th[t].range.a_begin .. th[t].range.a_end - 1 :
        /\ ASlot(t, i) \in indices_def
        /\ Owns(indices[ASlot(t, i)], i)

\* A second tile, run by two threads, holding outputs behind an empty segment.
C1_Witness ==
  /\ cta = 1 /\ cta < num_ctas
  /\ nt = 2 /\ vt = 2
  /\ \A t \in Tids : th[t].pc = "readout"
  /\ a_count(TileRange) >= 2
  /\ \E s \in 0 .. num_segments - 1 : IsEmpty(s)

\* C2: when the launch is over, the active lanes of all tiles have produced
\* exactly the triples (i, seg(i), i - segments[seg(i)]) for i in [0, count),
\* each once and nothing else.
C2_OneTriplePerOutput ==
  cta = num_ctas =>
    /\ Len(emitted) = count
    /\ \A i \in 0 .. count - 1 :
         \E n \in 1 .. Len(emitted) :
           emitted[n] = <<i, SegOf(i), i - segments[SegOf(i)]>>

\* A finished launch of several tiles over a full-size input.
C2_Witness ==
  /\ cta = num_ctas
  /\ num_ctas >= 2
  /\ count = MaxCount
  /\ nt = 2
  /\ Len(emitted) = count

\* C3: an active lane's rank is its index minus the start of its segment and
\* lies in [0, length of the segment); the window entry b_shared[seg] the
\* readout subtracts is the true start of that segment.
C3_Ranks ==
  \A t \in Tids :
    (cta < num_ctas /\ th[t].pc \in AfterReadout) =>
      \A k \in 0 .. vt - 1 :
        Active(t, k) =>
          /\ th[t].seg[k] \in 0 .. num_segments - 1
          /\ th[t].ranks[k] = th[t].indices[k] - segments[th[t].seg[k]]
          /\ 0 <= th[t].ranks[k]
          /\ th[t].ranks[k]
               < SegStart(th[t].seg[k] + 1) - SegStart(th[t].seg[k])
          /\ BSlot(t, th[t].seg[k]) \in indices_def
          /\ indices[BSlot(t, th[t].seg[k])] = segments[th[t].seg[k]]

\* A lane of a later tile with a positive rank in a segment that starts
\* before the tile.
C3_Witness ==
  \E t \in Tids : \E k \in 0 .. vt - 1 :
    /\ cta >= 1 /\ cta < num_ctas
    /\ th[t].pc = "sync4"
    /\ Active(t, k)
    /\ th[t].ranks[k] >= 1
    /\ th[t].seg[k] >= 1

\* C4: no active lane is given an empty segment.
C4_NoEmptySegment ==
  \A t \in Tids :
    (cta < num_ctas /\ th[t].pc \in AfterReadout) =>
      \A k \in 0 .. vt - 1 :
        Active(t, k) =>
          /\ th[t].seg[k] \in 0 .. num_segments - 1
          /\ ~IsEmpty(th[t].seg[k])

\* An active lane whose segment follows two empty ones, with a trailing empty
\* segment starting at count behind it.
C4_Witness ==
  \E t \in Tids : \E k \in 0 .. vt - 1 :
    /\ cta < num_ctas
    /\ th[t].pc = "sync4"
    /\ Active(t, k)
    /\ th[t].seg[k] = 2
    /\ IsEmpty(0) /\ IsEmpty(1)
    /\ num_segments - 1 > 2
    /\ segments[num_segments - 1] = count

\* C5: over the threads of a tile, the set bits among the first vt bits of
\* merge_flags add up to the tile's a_count.
RECURSIVE SumFlags(_)
SumFlags(n) ==
  IF n = 0 THEN 0
  ELSE popc(th[n - 1].merge_flags % Pow2(vt)) + SumFlags(n - 1)

C5_FlagCount ==
  (cta < num_ctas /\ \A t \in Tids : th[t].pc \in AfterMergeSteps) =>
    SumFlags(nt) = a_count(TileRange)

\* The final partial tile of a launch (a_count + b_count < nv), two threads.
C5_Witness ==
  /\ cta = num_ctas - 1 /\ cta >= 1
  /\ nt = 2
  /\ \A t \in Tids : th[t].pc = "sync3"
  /\ a_count(TileRange) + b_count(TileRange) < nv
  /\ a_count(TileRange) >= 1

\* A tile without outputs.
C5_WitnessNoOutput ==
  /\ cta < num_ctas
  /\ \A t \in Tids : th[t].pc = "sync3"
  /\ a_count(TileRange) = 0
  /\ count > 0

\* C6 as stated: for every serial-merge step k a thread has executed, bit k
\* of merge_flags is set iff step k advanced the output stream A.
C6_FlagIffAdvancedA ==
  \A t \in Tids :
    \A k \in 1 .. Len(th[t].steps) :
      (Bit(th[t].merge_flags, k - 1) = 1) <=> th[t].steps[k].a

\* C6, amended: merge_flags has vt + 1 bits; for a step k < vt bit k is set
\* iff the step advanced A; the extra step k = vt always advances B, and bit
\* vt holds its comparison p.
C6_FlagBits ==
  \A t \in Tids :
    /\ th[t].merge_flags < Pow2(vt + 1)
    /\ \A k \in 1 .. Len(th[t].steps) :
         /\ (Bit(th[t].merge_flags, k - 1) = 1) <=> th[t].steps[k].p
         /\ k <= vt => (th[t].steps[k].a <=> th[t].steps[k].p)
         /\ k = vt + 1 => ~th[t].steps[k].a

\* A thread that has done all vt + 1 steps, advanced A and B among the first
\* vt, and found p true in the extra step.
C6_Witness ==
  \E t \in Tids :
    /\ cta < num_ctas
    /\ vt = 2
    /\ th[t].pc = "sync3"
    /\ Bit(th[t].merge_flags, vt) = 1
    /\ th[t].steps[1].a # th[t].steps[2].a

\* C7: a second launch on the same inputs returns, in every thread of every
\* tile and under every interleaving, the result_t of the first launch.
C7_SameResult ==
  (run = 2 /\ cta < num_ctas) =>
    \A t \in Tids :
      th[t].pc \in AfterReadout => Result(t) = first[cta + 1][t]

\* The second launch has finished a later tile with two threads and outputs.
C7_Witness ==
  /\ run = 2
  /\ cta = 1 /\ cta < num_ctas
  /\ nt = 2
  /\ \A t \in Tids : th[t].pc = "done"
  /\ a_count(TileRange) >= 1

\* The attributes a thread has scattered into its registers so far.
Scattered(t) ==
  IF th[t].pc = "done" THEN Arity
  ELSE IF th[t].pc = "csync2" THEN th[t].attr + 1
  ELSE IF th[t].pc \in {"cload", "csync1", "cscatter"} THEN th[t].attr
  ELSE 0

\* C8: with the placement's B range as the load range, every lane with
\* ranks[k] >= 0 holds, for every attribute i loaded so far,
\* iterators[i][segments[k]].
C8_CachedValues ==
  (cta < num_ctas /\ range_kind = "placement") =>
    \A t \in Tids :
      \A k \in 0 .. vt - 1 :
        th[t].ranks[k] >= 0 =>
          \A i \in 0 .. Scattered(t) - 1 :
            th[t].values[k][i] = iterators(i, th[t].seg[k])

\* Two threads have loaded every attribute; a lane sits in a segment that is
\* not the first of the loaded range, which does not start at segment 0.
C8_Witness ==
  \E t \in Tids : \E k \in 0 .. vt - 1 :
    /\ cta < num_ctas
    /\ nt = 2
    /\ \A u \in Tids : th[u].pc = "done"
    /\ th[t].ranks[k] >= 0
    /\ LoadRange(t).begin >= 1
    /\ th[t].seg[k] > LoadRange(t).begin

\* C9: the readout gives slot i of thread t the index a_begin + nt*i + t; a
\* slot with nt*i + t >= a_count gets the b_begin of the tile's un-extended
\* merge range and rank -1; a slot is active iff its rank is >= 0.
C9_Readout ==
  \A t \in Tids :
    (cta < num_ctas /\ th[t].pc \in AfterReadout) =>
      \A i \in 0 .. vt - 1 :
        /\ th[t].indices[i] = partitions(cta) + nt * i + t
        /\ nt * i + t >= a_count(TileRange) =>
             /\ th[t].seg[i] = nv * cta - partitions(cta)
             /\ th[t].ranks[i] = -1
        /\ (nt * i + t < a_count(TileRange)) <=> (th[t].ranks[i] >= 0)

\* A thread with an active and an inactive slot in a tile whose loaded range
\* was extended to the left.
C9_Witness ==
  \E t \in Tids : \E i, k \in 0 .. vt - 1 :
    /\ cta < num_ctas
    /\ th[t].pc = "sync4"
    /\ Active(t, i) /\ ~Active(t, k)
    /\ th[t].load_preceding = 1

\* C10: when the scatter step runs, the segment id of every inactive slot
\* lies in the range the load has staged, names an existing segment, and
\* its scratch slot has been written.
C10_InactiveStaged ==
  \A t \in Tids :
    (cta < num_ctas /\ th[t].pc = "cscatter") =>
      \A k \in 0 .. vt - 1 :
        ~Active(t, k) =>
          /\ LoadRange(t).begin <= th[t].seg[k]
          /\ th[t].seg[k] < LoadRange(t).end
          /\ th[t].seg[k] < num_segments
          /\ ScatterSlot(t, k) \in shared_def

\* The outputs [a_begin, a_end) the claim expects tile cta of S5 to hold.
S5ThreeTiles == <<8, 8, 4>>

\* C11 as stated: scenario S5 spans 3 tiles, and the set bits among the
\* first vt bits of merge_flags add up to 8, 8 and 4 in them.
C11_S5ThreeTiles ==
  /\ num_ctas = 3
  /\ (cta < num_ctas /\ \A t \in Tids : th[t].pc \in AfterMergeSteps) =>
       SumFlags(nt) = S5ThreeTiles[cta + 1]

\* What scenario S5 gives: the upper-bounds merge of 0 .. 19 with the
\* segment starts, cut every nv = 8 merge items.
S5ABegin == <<0, 6, 12, 19, 20>>
S5BBegin == <<0, 2, 4, 5, num_segments>>

\* C11, amended: scenario S5 spans 4 tiles; their merge ranges, derived from
\* the partition crossings, are a = [0,6), [6,12), [12,19), [19,20) and
\* b = [0,2), [2,4), [4,5), [5,num_segments), which cover the outputs and
\* the segments contiguously; the per-tile sums of popcount(merge_flags)
\* over the first vt bits are 6, 6, 7 and 1.
C11_S5FourTiles ==
  /\ num_ctas = 4
  /\ cta < num_ctas =>
       /\ \A t \in Tids :
            th[t].pc # "fill" =>
              th[t].range = [a_begin |-> S5ABegin[cta + 1],
                             a_end |-> S5ABegin[cta + 2],
                             b_begin |-> S5BBegin[cta + 1],
                             b_end |-> S5BBegin[cta + 2]]
       /\ (\A t \in Tids : th[t].pc \in AfterMergeSteps) =>
            SumFlags(nt) = S5ABegin[cta + 2] - S5ABegin[cta + 1]

\* The last of the four tiles of S5 has finished its serial merge.
C11_Witness ==
  /\ cta = 3 /\ cta < num_ctas
  /\ nt = 4 /\ vt = 2 /\ count = 20
  /\ \A t \in Tids : th[t].pc = "sync3"
  /\ SumFlags(nt) = 1

\* The staged window between the first barrier and the serial merge.
WindowStaged ==
  cta < num_ctas /\ \A t \in Tids : th[t].pc \in {"mpath", "sync2"}

\* The storage.indices slots the window of n entries occupies.
WindowSlots(t, n) == {a_count(th[t].range) + j : j \in 0 .. n - 1}

\* The parts of C12 about the window's content: the written slots are
\* exactly those of a window of load_count + fill_count entries, the first
\* load_count hold segments[range.b_begin + i] (range after extension), the
\* trailing fill_count hold the sentinel count.
WindowContent(t) ==
  LET r == th[t].placement.range
      lc == th[t].load_count
      fc == th[t].fill_count
  IN  /\ lc = b_count(r)
      /\ fc >= 0
      /\ indices_def = WindowSlots(t, lc + fc)
      /\ \A i \in 0 .. lc - 1 :
           indices[a_count(th[t].range) + i] = segments[r.b_begin + i]
      /\ \A i \in 0 .. fc - 1 :
           indices[a_count(th[t].range) + lc + i] = count

\* C12 as stated: after the first barrier of cta_load_balance_place the
\* window holds exactly load_count + fill_count entries, this number is
\* nv + 1 + load_preceding, the first load_count entries are the loaded
\* segment starts and the trailing fill_count entries are count.
C12_WindowSize ==
  WindowStaged =>
    \A t \in Tids :
      /\ th[t].load_count + th[t].fill_count = nv + 1 + th[t].load_preceding
      /\ WindowContent(t)

\* C12, amended: the same with the number of entries being
\* nv + 1 + load_preceding - a_count, a_count the outputs of the tile.
C12_Window ==
  WindowStaged =>
    \A t \in Tids :
      /\ th[t].load_count + th[t].fill_count
           = nv + 1 + th[t].load_preceding - a_count(th[t].range)
      /\ WindowContent(t)

\* A tile with outputs whose window has a preceding start, further loaded
\* starts and sentinels, staged by two threads.
C12_Witness ==
  /\ WindowStaged
  /\ nt = 2
  /\ \A t \in Tids : th[t].pc = "mpath"
  /\ th[0].load_preceding = 1
  /\ th[0].load_count >= 2
  /\ th[0].fill_count >= 1
  /\ a_count(th[0].range) >= 1

\* Thread t has executed the serial-merge step i = 0.
FirstStepDone(t) == cta < num_ctas /\ Len(th[t].steps) >= 1

\* The start of segment s, count standing behind the last segment as the
\* sentinels of the window do.
StartOrCount(s) == IF s \in 0 .. num_segments - 1 THEN segments[s] ELSE count

\* C13 as stated: the first serial-merge step (i = 0) of every thread is a
\* B-advance: p is false and cur_segment is incremented, nothing is emitted.
C13_FirstStepAdvancesB ==
  \A t \in Tids :
    FirstStepDone(t) =>
      /\ ~th[t].steps[1].p
      /\ ~th[t].steps[1].a

\* C13, amended: thread 0 of the first tile starts with b_index = -1 and its
\* first step is a B-advance onto segment 0.  Any thread's first step is a
\* B-advance iff the start of segment b_index + 1 (count behind the last
\* segment) is not beyond a_index;
\* otherwise the thread starts inside segment b_index, which owns a_index,
\* and its first step emits a_index with that segment.
C13_FirstStep ==
  \A t \in Tids :
    FirstStepDone(t) =>
      LET a_index == th[t].placement.a_index
          b_index == th[t].placement.b_index
      IN  /\ (cta = 0 /\ t = 0) => (b_index = -1 /\ ~th[t].steps[1].a)
          /\ th[t].steps[1].a <=> th[t].steps[1].p
          /\ ~th[t].steps[1].a <=> StartOrCount(b_index + 1) <= a_index
          /\ th[t].steps[1].a => Owns(b_index, a_index)

\* Thread 0 of a later tile, whose first output lies in the segment that
\* starts before the tile: its first step has emitted an output.
C13_Witness ==
  /\ cta >= 1 /\ cta < num_ctas
  /\ th[0].pc = "sync3"
  /\ th[0].load_preceding = 1
  /\ th[0].steps[1].a

\* Thread t is in or behind its serial merge.
InMerge(t) == cta < num_ctas /\ th[t].pc \in {"merge"} \cup AfterMergeSteps

\* The storage.indices slots thread t has written in its serial merge so
\* far: line 118 writes a_shared[cur_item++], starting at a_index, so they
\* are the slots of the items a_index .. cur_item - 1, each written once.
Written(t) ==
  {ASlot(t, x) : x \in th[t].placement.a_index .. th[t].cur_item - 1}

\* C14: at every point of the serial-merge phase the slots written by
\* distinct threads are disjoint and lie in [0, a_count); a thread writes as
\* many slots as it has advanced A; once every thread has done its vt + 1
\* steps, every slot of [0, a_count) has been written by exactly one thread
\* and holds the segment id of its output.
C14_DisjointWrites ==
  /\ \A t \in Tids :
       InMerge(t) =>
         /\ Written(t) \subseteq 0 .. a_count(TileRange) - 1
         /\ Cardinality(Written(t))
              = Cardinality({k \in 1 .. Len(th[t].steps) : th[t].steps[k].a})
         /\ \A u \in Tids \ {t} :
              InMerge(u) => Written(t) \cap Written(u) = {}
  /\ (cta < num_ctas /\ \A t \in Tids : th[t].pc \in AfterMergeSteps) =>
       \A x \in 0 .. a_count(TileRange) - 1 :
         /\ \E t \in Tids : x \in Written(t)
         /\ x \in indices_def
         /\ indices[x] = SegOf(TileRange.a_begin + x)

\* Two threads have finished their steps; both have written slots, one of
\* them two.
C14_Witness ==
  /\ cta < num_ctas
  /\ nt = 2
  /\ \A t \in Tids : th[t].pc = "sync3"
  /\ \A t \in Tids : Cardinality(Written(t)) >= 1
  /\ \E t \in Tids : Cardinality(Written(t)) = 2

\* Thread t has computed its window (lines 23-33) in the current tile.
Placed(t) == cta < num_ctas /\ th[t].pc # "fill"

\* Every thread is past the first barrier of the current tile.
Staged ==
  cta < num_ctas /\ \A t \in Tids : th[t].pc \notin {"fill", "load", "sync1"}

\* C16: no access of cta_load_balance_place or load_balance to
\* storage.indices falls outside [0, nv + 2); fill_count is never negative;
\* the B window is [a_count, a_count + load_count + fill_count), inside the
\* buffer; every A write lands in [0, a_count); and from the first barrier
\* to the end of the tile the staged B entries keep their values.
C16_IndicesInBounds ==
  /\ "indices" \notin oob
  /\ indices_def \subseteq 0 .. nv + 1
  /\ \A t \in Tids :
       Placed(t) =>
         LET ac == a_count(th[t].range)
             lc == th[t].load_count
             fc == th[t].fill_count
             r == th[t].placement.range
         IN  /\ fc >= 0
             /\ ac >= 0 /\ lc >= 0
             /\ ac + lc + fc <= nv + 2
             /\ InMerge(t) => Written(t) \subseteq 0 .. ac - 1
             /\ Staged =>
                  /\ \A i \in 0 .. lc - 1 :
                       /\ ac + i \in indices_def
                       /\ indices[ac + i] = segments[r.b_begin + i]
                  /\ \A i \in 0 .. fc - 1 :
                       /\ ac + lc + i \in indices_def
                       /\ indices[ac + lc + i] = count

\* A tile that uses the last slot of the buffer: a preceding start is
\* loaded, the window ends at slot nv + 1, and two threads have done all
\* their steps, the extra one included, and written outputs.
C16_Witness ==
  /\ cta < num_ctas
  /\ nt = 2
  /\ \A t \in Tids : th[t].pc = "sync3" /\ th[t].load_preceding = 1
  /\ nv + 1 \in indices_def
  /\ a_count(TileRange) >= 1

\* The tile's outputs end the output range while segments remain.
Suppressed(r) == r.a_end = count /\ r.b_end < num_segments

\* C17: in a tile with range.a_end = count and range.b_end < num_segments
\* the code does not extend b_end, there is a first fill slot, and the
\* sentinel written there is the segments[range.b_end] the extension would
\* have loaded; the variant that extends b_end whenever
\* range.b_end < num_segments stages the same window and returns, in every
\* thread of every tile, the indices, segment ids, merge_flags and ranks of
\* the code, differing at most in placement.range.b_end.
C17_SuppressedTrailing ==
  \A t \in Tids :
    /\ (Placed(t) /\ Suppressed(th[t].range)) =>
         /\ segments[th[t].range.b_end] = count
         /\ ~always_trailing =>
              /\ th[t].placement.range.b_end = th[t].range.b_end
              /\ th[t].fill_count >= 1
         /\ always_trailing =>
              th[t].placement.range.b_end = th[t].range.b_end + 1
         /\ Staged =>
              LET slot == a_count(th[t].range) + th[t].load_preceding
                            + b_count(th[t].range)
              IN  /\ slot \in indices_def
                  /\ indices[slot] = segments[th[t].range.b_end]
    /\ (run = 2 /\ cta < num_ctas /\ th[t].pc \in AfterReadout) =>
         LET code == first[cta + 1][t]
         IN  /\ th[t].seg = code.segments
             /\ th[t].merge_flags = code.merge_flags
             /\ th[t].ranks = code.ranks
             /\ th[t].indices = code.indices
             /\ th[t].placement.a_index = code.placement.a_index
             /\ th[t].placement.b_index = code.placement.b_index
             /\ th[t].placement.range.b_end
                  = code.placement.range.b_end
                      + (IF Suppressed(th[t].range) THEN 1 ELSE 0)

\* The variant has run a tile with outputs in which the code suppressed
\* the extension: it has loaded one more segment start than the code.
C17_Witness ==
  /\ run = 2 /\ always_trailing
  /\ cta < num_ctas
  /\ nt = 2
  /\ \A t \in Tids : th[t].pc = "done"
  /\ Suppressed(TileRange)
  /\ a_count(TileRange) >= 1
  /\ th[0].placement.range.b_end = first[cta + 1][0].placement.range.b_end + 1

\* The barriers thread t has left behind in the current tile.
BarriersPassed(t) ==
  CASE th[t].pc \in {"fill", "load", "sync1"} -> 0
    [] th[t].pc \in {"mpath", "sync2"} -> 1
    [] th[t].pc \in {"merge", "sync3"} -> 2
    [] th[t].pc \in {"readout", "sync4"} -> 3
    [] th[t].pc \in {"cload", "csync1"} -> 4 + 2 * th[t].attr
    [] th[t].pc \in {"cscatter", "csync2"} -> 5 + 2 * th[t].attr
    [] th[t].pc = "done" -> 4 + 2 * Arity

\* Every CTA of the launch has retired: each of its threads has returned
\* from load_balance and from the cached load of every attribute.
LaunchDone == cta = num_ctas /\ Len(first) = num_ctas

\* The statements thread t has left behind in the current tile.
Position(t) ==
  CASE th[t].pc = "fill" -> 0
    [] th[t].pc = "load" -> 1
    [] th[t].pc = "sync1" -> 2
    [] th[t].pc = "mpath" -> 3
    [] th[t].pc = "sync2" -> 4
    [] th[t].pc = "merge" -> 5 + th[t].i
    [] th[t].pc = "sync3" -> 6 + vt
    [] th[t].pc = "readout" -> 7 + vt
    [] th[t].pc = "sync4" -> 8 + vt
    [] th[t].pc = "cload" -> 9 + vt + 4 * th[t].attr
    [] th[t].pc = "csync1" -> 10 + vt + 4 * th[t].attr
    [] th[t].pc = "cscatter" -> 11 + vt + 4 * th[t].attr
    [] th[t].pc = "csync2" -> 12 + vt + 4 * th[t].attr
    [] th[t].pc = "done" -> 9 + vt + 4 * Arity

\* The statements of one thread in one tile, its return included.
TileLength == 10 + vt + 4 * Arity

RECURSIVE SumPositions(_)
SumPositions(n) == IF n = 0 THEN 0 ELSE Position(n - 1) + SumPositions(n - 1)

\* How far the launch has got.
Progress == cta * nt * TileLength + SumPositions(nt)

\* Thread t is between barriers: its next statement needs no other thread.
Running(t) ==
  th[t].pc \in {"fill", "load", "mpath", "merge", "readout", "cload",
                "cscatter"}

\* C18: in every reachable state all threads of the CTA have passed the
\* same number of barriers (none skips or runs past a barrier the others
\* wait at); unless the launch is over, a thread is between barriers or a
\* step is enabled, that is, the barrier the threads wait at opens (no
\* thread waits forever at a barrier); and every step moves the launch
\* forward in a progress measure bounded by num_ctas * nt * TileLength, so
\* every thread of every tile returns after finitely many steps, the
\* cached-load recursion ending after Arity attributes.
C18_Termination ==
  /\ [](/\ \A t \in Tids : BarriersPassed(t) = BarriersPassed(0)
        /\ LaunchDone \/ (\E t \in Tids : Running(t)) \/ ENABLED Launch
        /\ Progress <= num_ctas * nt * TileLength
        /\ \A t \in Tids : th[t].attr < Arity)
  /\ [][Progress' > Progress]_vars

\* A finished launch of two threads per CTA over several tiles, one of
\* them without outputs, one without segments and partial, one full with
\* no sentinel in its window.
C18_Witness ==
  /\ LaunchDone
  /\ nt = 2
  /\ count > 0
  /\ \E k \in 1 .. Len(first) : a_count(first[k][0].merge_range) = 0
  /\ \E k \in 1 .. Len(first) :
       /\ b_count(first[k][0].merge_range) = 0
       /\ a_count(first[k][0].merge_range) < nv
  /\ \E k \in 1 .. Len(first) :
       LET r == first[k][0].merge_range
           placed == first[k][0].placement.range
       IN  /\ a_count(r) + b_count(r) = nv
           /\ placed.b_begin < r.b_begin
           /\ placed.b_end > r.b_end

\* C19: the loaded segment range of the placement has at most nv + 1
\* entries in every tile, and no access of the cached load over that range
\* falls outside the nv + 1 elements of its scratch storage.
C19_LoadedRangeFits ==
  /\ \A t \in Tids :
       Placed(t) => b_count(th[t].placement.range) <= nv + 1
  /\ "shared" \notin oob

\* Thread t's slot k holds a segment id the serial merge wrote.
ActiveLane(t, k) ==
  cta < num_ctas /\ th[t].pc \in AfterReadout /\ Active(t, k)

\* The segment id of a lane lies in the loaded range and names a segment,
\* and the rank computation's read b_shared[seg] hit a staged entry of the
\* B window.
SegInLoadedRange(t, k) ==
  LET sg == th[t].seg[k]
      r == th[t].placement.range
      ac == a_count(th[t].range)
  IN  /\ r.b_begin <= sg /\ sg < r.b_end
      /\ 0 <= sg /\ sg < num_segments
      /\ BSlot(t, sg) \in ac .. ac + th[t].load_count - 1
      /\ BSlot(t, sg) \in indices_def
      /\ indices[BSlot(t, sg)] = segments[sg]

\* C20 as stated: whatever segments[0] is, the segment id of every active
\* lane lies in [placement.range.b_begin, placement.range.b_end) and in
\* [0, num_segments), never -1, and b_shared[seg] is a staged entry of the
\* B window.
C20_SegmentIdsInRange ==
  \A t \in Tids : \A k \in 0 .. vt - 1 :
    ActiveLane(t, k) => SegInLoadedRange(t, k)

\* C20, amended: this holds of the active lanes whose output index is not
\* below segments[0], in particular of all lanes when segments[0] = 0; an
\* output below segments[0] belongs to no segment and its lane gets the
\* segment id -1.
C20_SegmentIdsOwned ==
  \A t \in Tids : \A k \in 0 .. vt - 1 :
    ActiveLane(t, k) =>
      IF th[t].indices[k] >= segments[0]
      THEN SegInLoadedRange(t, k)
      ELSE th[t].seg[k] = -1

\* In a tile behind the first one, of a descriptor that starts behind
\* output 0, a lane holds an output of the segment that starts before the
\* tile.
C20_Witness ==
  \E t \in Tids : \E k \in 0 .. vt - 1 :
    /\ ActiveLane(t, k)
    /\ cta >= 1
    /\ segments[0] > 0
    /\ th[t].load_preceding = 1
    /\ th[t].seg[k] = th[t].placement.range.b_begin
    /\ SegInLoadedRange(t, k)

====
